---- MODULE Spec2Model ----
(***************************************************************************)
(* Model of the Word document MCP server (src/word_mcp_server.py).         *)
(*                                                                         *)
(* A Python string is a sequence of one-character strings.  The literal    *)
(* parts of a formatted message are kept as whole fragments, so a message  *)
(* is a sequence of fragments and characters in the order the f-string     *)
(* produces them.  A path is a string; the file system maps normalised     *)
(* paths to file contents.                                                 *)
(***************************************************************************)
EXTENDS Integers, Sequences, FiniteSets, TLC

VARIABLES files, dirs, last, prev, hist, calls, trace

vars == <<files, dirs, last, prev, hist, calls, trace>>

-----------------------------------------------------------------------------
(* Bounds of the model.                                                    *)

\* most body paragraphs a document is grown to by write_text / add_heading
MaxParas == 2

\* longest run text a replacement is followed to
MaxRunLen == 3

-----------------------------------------------------------------------------
(* Python str operations used by the server.                               *)

\* s[i:i+len(sub)] == sub
MatchAt(s, i, sub) ==
    /\ i + Len(sub) - 1 <= Len(s)
    /\ SubSeq(s, i, i + Len(sub) - 1) = sub

\* s.endswith(suf)
EndsWith(s, suf) ==
    /\ Len(s) >= Len(suf)
    /\ SubSeq(s, Len(s) - Len(suf) + 1, Len(s)) = suf

\* sub in s
Contains(s, sub) == \E i \in 1..(Len(s) + 1) : MatchAt(s, i, sub)

RECURSIVE ReplaceFrom(_, _, _, _)
ReplaceFrom(s, i, old, new) ==
    IF i > Len(s) THEN <<>>
    ELSE IF MatchAt(s, i, old)
         THEN new \o ReplaceFrom(s, i + Len(old), old, new)
         ELSE <<s[i]>> \o ReplaceFrom(s, i + 1, old, new)

RECURSIVE Interleave(_, _, _)
Interleave(s, i, new) ==
    IF i > Len(s) THEN new
    ELSE new \o <<s[i]>> \o Interleave(s, i + 1, new)

\* s.replace(old, new): every non-overlapping occurrence, left to right;
\* an empty old matches before every character and at the end
StrReplace(s, old, new) ==
    IF old = <<>> THEN Interleave(s, 1, new) ELSE ReplaceFrom(s, 1, old, new)

RECURSIVE CountFrom(_, _, _)
CountFrom(s, i, sub) ==
    IF i > Len(s) THEN 0
    ELSE IF MatchAt(s, i, sub)
         THEN 1 + CountFrom(s, i + Len(sub), sub)
         ELSE CountFrom(s, i + 1, sub)

\* s.count(sub): non-overlapping occurrences; len(s) + 1 for an empty sub
StrCount(s, sub) ==
    IF sub = <<>> THEN Len(s) + 1 ELSE CountFrom(s, 1, sub)

IsSpace(c) == c \in {" ", "\n", "\t", "\r"}

RECURSIVE LStrip(_)
LStrip(s) ==
    IF s /= <<>> /\ IsSpace(Head(s)) THEN LStrip(Tail(s)) ELSE s

RECURSIVE RStrip(_)
RStrip(s) ==
    IF s /= <<>> /\ IsSpace(s[Len(s)])
    THEN RStrip(SubSeq(s, 1, Len(s) - 1)) ELSE s

\* s.strip()
Strip(s) == RStrip(LStrip(s))

LowerChar(c) ==
    CASE c = "P" -> "p"
      [] c = "D" -> "d"
      [] c = "F" -> "f"
      [] OTHER -> c

\* s.lower()
Lower(s) == [i \in 1..Len(s) |-> LowerChar(s[i])]

RECURSIVE Join(_, _)
\* sep.join(parts)
Join(parts, sep) ==
    IF parts = <<>> THEN <<>>
    ELSE IF Len(parts) = 1 THEN parts[1]
    ELSE parts[1] \o sep \o Join(Tail(parts), sep)

RECURSIVE Concat(_)
Concat(parts) ==
    IF parts = <<>> THEN <<>> ELSE Head(parts) \o Concat(Tail(parts))

\* order of the characters that occur in file names
Ord(c) ==
    CASE c = "." -> 46
      [] c = "/" -> 47
      [] c = "D" -> 68
      [] c = "F" -> 70
      [] c = "P" -> 80
      [] c = "a" -> 97
      [] c = "b" -> 98
      [] c = "c" -> 99
      [] c = "d" -> 100
      [] c = "f" -> 102
      [] c = "o" -> 111
      [] c = "p" -> 112
      [] c = "x" -> 120
      [] OTHER -> 32

RECURSIVE StrLess(_, _)
\* s < t on Python strings
StrLess(s, t) ==
    IF t = <<>> THEN FALSE
    ELSE IF s = <<>> THEN TRUE
    ELSE IF Ord(Head(s)) /= Ord(Head(t)) THEN Ord(Head(s)) < Ord(Head(t))
    ELSE StrLess(Tail(s), Tail(t))

RECURSIVE Sorted(_)
\* sorted(names) of a set of distinct strings
Sorted(S) ==
    IF S = {} THEN <<>>
    ELSE LET m == CHOOSE x \in S : \A y \in S \ {x} : StrLess(x, y)
         IN  <<m>> \o Sorted(S \ {m})

-----------------------------------------------------------------------------
(* os.path                                                                 *)

\* index of the last "/" of p, 0 when there is none
LastSlash(p) ==
    IF \E i \in 1..Len(p) : p[i] = "/"
    THEN CHOOSE i \in 1..Len(p) :
            /\ p[i] = "/"
            /\ \A j \in (i + 1)..Len(p) : p[j] /= "/"
    ELSE 0

RECURSIVE RStripSlash(_)
RStripSlash(s) ==
    IF s /= <<>> /\ s[Len(s)] = "/"
    THEN RStripSlash(SubSeq(s, 1, Len(s) - 1)) ELSE s

\* os.path.dirname(p)
Dirname(p) ==
    LET head == SubSeq(p, 1, LastSlash(p))
    IN  IF head /= <<>> /\ \E i \in 1..Len(head) : head[i] /= "/"
        THEN RStripSlash(head) ELSE head

\* os.path.basename(p)
Basename(p) == SubSeq(p, LastSlash(p) + 1, Len(p))

\* os.path.splitext(name)[0] of a name without directory: the text before
\* the last dot, leading dots not counting as an extension
SplitextRoot(name) ==
    LET dots == {i \in 1..Len(name) : name[i] = "."}
        lead == {i \in 1..Len(name) : \A j \in 1..i : name[j] = "."}
    IN  IF dots \ lead = {} THEN name
        ELSE LET k == CHOOSE i \in dots : \A j \in dots : j <= i
             IN  IF k - 1 \in lead \/ k = 1 THEN name
                 ELSE SubSeq(name, 1, k - 1)

\* os.path.join(a, b)
PathJoin(a, b) ==
    IF b /= <<>> /\ Head(b) = "/" THEN b
    ELSE IF a = <<>> \/ a[Len(a)] = "/" THEN a \o b
    ELSE a \o <<"/">> \o b

RECURSIVE Components(_)
\* the components of a relative path, "." and empty components dropped
Components(p) ==
    IF p = <<>> THEN <<>>
    ELSE LET k == IF \E i \in 1..Len(p) : p[i] = "/"
                  THEN CHOOSE i \in 1..Len(p) :
                          p[i] = "/" /\ \A j \in 1..(i - 1) : p[j] /= "/"
                  ELSE Len(p) + 1
             first == SubSeq(p, 1, k - 1)
             rest == Components(SubSeq(p, k + 1, Len(p)))
         IN  IF first = <<>> \/ first = <<".">> THEN rest
             ELSE <<first>> \o rest

\* the file-system location a relative path names (<<>> is the working
\* directory)
Locate(p) == Join(Components(p), <<"/">>)

\* the directory holding location c
Parent(c) == Dirname(c)

-----------------------------------------------------------------------------
(* The file system and the document library, as the server uses them.      *)

DOCX == <<".", "d", "o", "c", "x">>

PDF == <<".", "p", "d", "f">>

\* a file the converter wrote
PdfFile == [kind |-> "pdf"]

\* a file that is no document package
JunkFile == [kind |-> "junk"]

\* Document(): the library's empty default document
NewDocument ==
    [kind |-> "docx", title |-> <<>>, author |-> <<"python-docx">>,
     paras |-> <<>>, tables |-> <<>>]

\* os.path.exists(path): a file or a directory is there
Exists(w, path) ==
    /\ path /= <<>>
    /\ LET c == Locate(path)
       IN  c = <<>> \/ c \in DOMAIN w.files \/ c \in w.dirs

IsDir(w, path) ==
    /\ path /= <<>>
    /\ LET c == Locate(path) IN c = <<>> \/ c \in w.dirs

\* Document(path): the stored document, or the library's exception
Load(w, path) ==
    LET c == Locate(path)
    IN  IF c \in DOMAIN w.files /\ w.files[c].kind = "docx"
        THEN [ok |-> TRUE, doc |-> w.files[c]]
        ELSE [ok |-> FALSE, exc |-> "<PackageNotFoundError>"]

\* writing a file at path: its directory must exist and path be no directory
CanWrite(w, path) ==
    /\ path /= <<>>
    /\ ~IsDir(w, path)
    /\ LET d == Parent(Locate(path)) IN d = <<>> \/ d \in w.dirs

\* doc.save(path)
Save(w, path, doc) ==
    IF CanWrite(w, path)
    THEN [ok |-> TRUE, files |-> (Locate(path) :> doc) @@ w.files]
    ELSE [ok |-> FALSE, exc |-> "<FileNotFoundError>"]

\* paragraph.text: the texts of the paragraph's runs, concatenated
ParaText(p) == Concat(p.runs)

\* paragraph styles: body text, and "Heading <level>"
Normal == [name |-> "Normal", level |-> 0]

Heading(level) == [name |-> "Heading", level |-> level]

\* the text of a run the library was given text for: a carriage return is
\* stored as a line break, like a newline, and read back as a newline
RunText(text) == [i \in 1..Len(text) |-> IF text[i] = "\r" THEN "\n" ELSE text[i]]

\* add_paragraph putting the paragraph first
AddParagraph_first(doc, text, style) ==
    [doc EXCEPT !.paras =
        <<[style |-> style,
           runs |-> IF text /= <<>> THEN <<RunText(text)>> ELSE <<>>]>> \o @]

\* doc.add_paragraph(text, style): one paragraph at the end of the body; a
\* run is added only for a non-empty text
AddParagraph(doc, text, style) ==
    [doc EXCEPT !.paras =
        Append(@, [style |-> style,
                   runs |-> IF text /= <<>> THEN <<RunText(text)>> ELSE <<>>])]

\* what a call returns: the string, and which kind of failure produced it
\* wrote: the locations the call stored a file at; ran: whether it started
\* the converter process
Ret(fs, msg, fail) ==
    [files |-> fs, result |-> [msg |-> msg, fail |-> fail],
     wrote |-> {}, ran |-> FALSE]

\* a return after storing a file at the location of path
Stored(out, path) == [out EXCEPT !.wrote = @ \cup {Locate(path)}]

Quoted(s) == <<"'">> \o s \o <<"'">>

-----------------------------------------------------------------------------
(* The tools.  Each takes the file system w = [files, dirs] and the call's *)
(* arguments and yields the files afterwards and the returned string.      *)

\* the extension appended without looking at the filename
ensure_docx_extension_always(filename) == filename \o DOCX

ensure_docx_extension(filename) ==
    IF ~EndsWith(filename, DOCX) THEN filename \o DOCX ELSE filename

check_file_exists(w, filename) == Exists(w, filename)

\* the paragraphs read_document keeps
NonEmptyTexts(paras) ==
    LET texts == [i \in 1..Len(paras) |-> ParaText(paras[i])]
    IN  SelectSeq(texts, LAMBDA t : Strip(t) /= <<>>)

read_document(w, filename0) ==
    LET filename == ensure_docx_extension(filename0)
    IN  IF ~check_file_exists(w, filename)
        THEN Ret(w.files, <<"Error: ", "Document ">> \o Quoted(filename)
                          \o <<" does not exist">>, "not_found")
        ELSE LET ld == Load(w, filename)
             IN  IF ld.ok
                 THEN Ret(w.files, Join(NonEmptyTexts(ld.doc.paras), <<"\n">>),
                          "none")
                 ELSE Ret(w.files, <<"Error ", "reading", " document: ", ld.exc>>,
                          "exception")

\* the JSON text is kept as its keys and values in order; the time stamps and
\* the file size are not modelled and stand as fixed fragments
get_document_info(w, filename0) ==
    LET filename == ensure_docx_extension(filename0)
    IN  IF ~check_file_exists(w, filename)
        THEN Ret(w.files, <<"Error: ", "Document ">> \o Quoted(filename)
                          \o <<" does not exist">>, "not_found")
        ELSE LET ld == Load(w, filename)
             IN  IF ld.ok
                 THEN Ret(w.files,
                          <<"{", "filename: ">> \o filename
                          \o <<", title: ">>
                          \o (IF ld.doc.title /= <<>> THEN ld.doc.title
                              ELSE <<"Untitled">>)
                          \o <<", author: ">>
                          \o (IF ld.doc.author /= <<>> THEN ld.doc.author
                              ELSE <<"Unknown">>)
                          \o <<", created: ", "<created>",
                               ", modified: ", "<modified>",
                               ", paragraph_count: ", ToString(Len(ld.doc.paras)),
                               ", table_count: ", ToString(Len(ld.doc.tables)),
                               ", file_size_kb: ", "<size>", "}">>,
                          "none")
                 ELSE Ret(w.files,
                          <<"Error ", "getting", " document info: ", ld.exc>>,
                          "exception")

\* os.listdir(directory): the names directly inside a directory
ListDir(w, directory) ==
    LET c == Locate(directory)
    IN  {Basename(f) : f \in {g \in (DOMAIN w.files) \cup w.dirs : Parent(g) = c}}

RECURSIVE ListLines(_)
\* one line per file; the bullet character is written "*" here
ListLines(names) ==
    IF names = <<>> THEN <<>>
    ELSE <<"  * ">> \o Head(names) \o <<" (", "<size>", " KB)", "\n">>
         \o ListLines(Tail(names))

list_documents(w, directory) ==
    IF ~Exists(w, directory)
    THEN Ret(w.files, <<"Error: ", "Directory ">> \o Quoted(directory)
                      \o <<" does not exist">>, "not_found")
    ELSE IF ~IsDir(w, directory)
    THEN Ret(w.files, <<"Error ", "listing", " documents: ",
                        "<NotADirectoryError>">>, "exception")
    ELSE LET docx_files == {f \in ListDir(w, directory) : EndsWith(f, DOCX)}
         IN  IF docx_files = {}
             THEN Ret(w.files, <<"No Word documents found in ">>
                               \o Quoted(directory), "none")
             ELSE Ret(w.files,
                      Strip(<<"Found ", ToString(Cardinality(docx_files)),
                              " Word documents in ">> \o Quoted(directory)
                            \o <<":", "\n">> \o ListLines(Sorted(docx_files))),
                      "none")

\* copy_document once the source is known to exist and the target not to
CopyExisting(w, source_filename, target_filename) ==
    LET ld == Load(w, source_filename)
        sv == Save(w, target_filename, ld.doc)
    IN  IF ~ld.ok
        THEN Ret(w.files, <<"Error ", "copying", " document: ", ld.exc>>,
                 "exception")
        ELSE IF ~sv.ok
        THEN Ret(w.files, <<"Error ", "copying", " document: ", sv.exc>>,
                 "exception")
        ELSE Stored(Ret(sv.files,
                        <<"Document copied successfully from ">>
                        \o Quoted(source_filename) \o <<" to ">>
                        \o Quoted(target_filename), "none"),
                    target_filename)

SourceMissing(source_filename) ==
    <<"Error: ", "Source document ">> \o Quoted(source_filename)
    \o <<" does not exist">>

\* copy_document with the check of the target left out
copy_document_unchecked(w, source0, target0) ==
    LET source_filename == ensure_docx_extension(source0)
        target_filename == ensure_docx_extension(target0)
    IN  IF ~check_file_exists(w, source_filename)
        THEN Ret(w.files, SourceMissing(source_filename), "not_found")
        ELSE CopyExisting(w, source_filename, target_filename)

copy_document(w, source0, target0) ==
    LET source_filename == ensure_docx_extension(source0)
        target_filename == ensure_docx_extension(target0)
    IN  IF ~check_file_exists(w, source_filename)
        THEN Ret(w.files, SourceMissing(source_filename), "not_found")
        ELSE IF check_file_exists(w, target_filename)
        THEN Ret(w.files, <<"Error: ", "Target document ">>
                          \o Quoted(target_filename)
                          \o <<" already exists">>, "exists")
        ELSE CopyExisting(w, source_filename, target_filename)

\* an optional argument
None == [some |-> FALSE]

Some(v) == [some |-> TRUE, val |-> v]

\* `if x:` on an optional string
Truthy(x) == x.some /\ x.val /= <<>>

\* create_document without its handler: the exception of save reaches the
\* caller
create_document_raises(w, filename0, title, author) ==
    LET filename == ensure_docx_extension(filename0)
        doc1 == IF Truthy(title)
                THEN [NewDocument EXCEPT !.title = title.val] ELSE NewDocument
        doc == IF Truthy(author)
               THEN [doc1 EXCEPT !.author = author.val] ELSE doc1
        sv == Save(w, filename, doc)
    IN  IF sv.ok
        THEN Stored(Ret(sv.files, <<"Document ">> \o Quoted(filename)
                                  \o <<" created successfully">>, "none"),
                    filename)
        ELSE Ret(w.files, <<sv.exc>>, "raised")

create_document(w, filename0, title, author) ==
    LET filename == ensure_docx_extension(filename0)
        doc1 == IF Truthy(title)
                THEN [NewDocument EXCEPT !.title = title.val] ELSE NewDocument
        doc == IF Truthy(author)
               THEN [doc1 EXCEPT !.author = author.val] ELSE doc1
        sv == Save(w, filename, doc)
    IN  IF sv.ok
        THEN Stored(Ret(sv.files, <<"Document ">> \o Quoted(filename)
                                  \o <<" created successfully">>, "none"),
                    filename)
        ELSE Ret(w.files, <<"Error ", "creating", " document: ", sv.exc>>,
                 "exception")

\* write_text loading the stored document whatever `append` says
LoadsExisting_always(w, filename, append) == check_file_exists(w, filename)

\* `append and check_file_exists(filename)`: write_text loads the stored
\* document instead of starting an empty one
LoadsExisting(w, filename, append) == append /\ check_file_exists(w, filename)

write_text(w, filename0, text, append) ==
    LET filename == ensure_docx_extension(filename0)
        existing == LoadsExisting(w, filename, append)
        ld == IF existing THEN Load(w, filename)
              ELSE [ok |-> TRUE, doc |-> NewDocument]
        sv == Save(w, filename, AddParagraph(ld.doc, text, Normal))
    IN  IF ~ld.ok
        THEN Ret(w.files, <<"Error ", "writing", " to document: ", ld.exc>>,
                 "exception")
        ELSE IF ~sv.ok
        THEN Ret(w.files, <<"Error ", "writing", " to document: ", sv.exc>>,
                 "exception")
        ELSE LET action ==
                    IF append /\ check_file_exists(
                                    [files |-> sv.files, dirs |-> w.dirs],
                                    filename)
                    THEN "appended to" ELSE "written to"
             IN  Stored(Ret(sv.files,
                            <<"Text ", action, " ">> \o Quoted(filename)
                            \o <<" successfully">>, "none"),
                        filename)

\* the lower limit off by one
InvalidLevel_from0(level) == level < 0 \/ level > 6

\* the heading levels add_heading refuses
InvalidLevel(level) == level < 1 \/ level > 6

add_heading(w, filename0, text, level) ==
    LET filename == ensure_docx_extension(filename0)
        ld == IF check_file_exists(w, filename) THEN Load(w, filename)
              ELSE [ok |-> TRUE, doc |-> NewDocument]
        sv == Save(w, filename,
                   AddParagraph(ld.doc, text, Heading(level)))
    IN  IF InvalidLevel(level)
        THEN Ret(w.files, <<"Error: ", "Heading level must be between 1 and 6">>,
                 "invalid_level")
        ELSE IF ~ld.ok
        THEN Ret(w.files, <<"Error ", "adding", " heading: ", ld.exc>>,
                 "exception")
        ELSE IF ~sv.ok
        THEN Ret(w.files, <<"Error ", "adding", " heading: ", sv.exc>>,
                 "exception")
        ELSE Stored(Ret(sv.files,
                        <<"Heading ">> \o Quoted(text)
                        \o <<" (level ", ToString(level), ") added to ">>
                        \o Quoted(filename), "none"),
                    filename)

RECURSIVE SumSeq(_)
SumSeq(ns) == IF ns = <<>> THEN 0 ELSE Head(ns) + SumSeq(Tail(ns))

\* the run compared with the text instead of searched for it
RunMatches_whole(run, find_text) == run = find_text

\* `find_text in run.text`
RunMatches(run, find_text) == Contains(run, find_text)

\* `find_text in paragraph.text`
ParaMatches(p, find_text) == Contains(ParaText(p), find_text)

\* run.text after the loop body ran on the run
ReplaceRun(run, find_text, new_text) ==
    IF RunMatches(run, find_text) THEN StrReplace(run, find_text, new_text)
    ELSE run

\* what the loop body adds to `replacements` for the run: the occurrences of
\* the replacement in the run's text after the substitution
RunIncrement(run, find_text, new_text) ==
    IF RunMatches(run, find_text)
    THEN StrCount(StrReplace(run, find_text, new_text), new_text)
    ELSE 0

ReplacePara(p, find_text, new_text) ==
    IF ParaMatches(p, find_text)
    THEN [p EXCEPT !.runs =
            [i \in 1..Len(@) |-> ReplaceRun(@[i], find_text, new_text)]]
    ELSE p

ParaIncrement(p, find_text, new_text) ==
    IF ParaMatches(p, find_text)
    THEN SumSeq([i \in 1..Len(p.runs) |->
                    RunIncrement(p.runs[i], find_text, new_text)])
    ELSE 0

ReplaceParas(ps, find_text, new_text) ==
    [i \in 1..Len(ps) |-> ReplacePara(ps[i], find_text, new_text)]

ParasIncrement(ps, find_text, new_text) ==
    SumSeq([i \in 1..Len(ps) |-> ParaIncrement(ps[i], find_text, new_text)])

\* a table is a sequence of rows, a row a sequence of cells, a cell a
\* sequence of paragraphs
ReplaceTables(ts, find_text, new_text) ==
    [t \in 1..Len(ts) |->
        [r \in 1..Len(ts[t]) |->
            [c \in 1..Len(ts[t][r]) |->
                ReplaceParas(ts[t][r][c], find_text, new_text)]]]

TablesIncrement(ts, find_text, new_text) ==
    SumSeq([t \in 1..Len(ts) |->
        SumSeq([r \in 1..Len(ts[t]) |->
            SumSeq([c \in 1..Len(ts[t][r]) |->
                ParasIncrement(ts[t][r][c], find_text, new_text)])])])

\* the in-memory document after both traversals
ReplaceInDoc(doc, find_text, new_text) ==
    [doc EXCEPT !.paras = ReplaceParas(@, find_text, new_text),
                !.tables = ReplaceTables(@, find_text, new_text)]

\* `replacements` after both traversals
Replacements(doc, find_text, new_text) ==
    ParasIncrement(doc.paras, find_text, new_text)
    + TablesIncrement(doc.tables, find_text, new_text)

replace_text(w, filename0, find_text, new_text) ==
    LET filename == ensure_docx_extension(filename0)
    IN  IF ~check_file_exists(w, filename)
        THEN Ret(w.files, <<"Error: ", "Document ">> \o Quoted(filename)
                          \o <<" does not exist">>, "not_found")
        ELSE LET ld == Load(w, filename)
                 replacements == Replacements(ld.doc, find_text, new_text)
                 sv == Save(w, filename,
                            ReplaceInDoc(ld.doc, find_text, new_text))
             IN  IF ~ld.ok
                 THEN Ret(w.files,
                          <<"Error ", "replacing", " text: ", ld.exc>>,
                          "exception")
                 ELSE IF replacements > 0
                 THEN IF ~sv.ok
                      THEN Ret(w.files,
                               <<"Error ", "replacing", " text: ", sv.exc>>,
                               "exception")
                      ELSE Stored(Ret(sv.files,
                                      <<"Replaced ", ToString(replacements),
                                        " occurrence(s) of ">>
                                      \o Quoted(find_text) \o <<" with ">>
                                      \o Quoted(new_text), "none"),
                                  filename)
                 ELSE Ret(w.files, <<"No occurrences of ">> \o Quoted(find_text)
                                   \o <<" found">>, "none")

-----------------------------------------------------------------------------
(* export_to_pdf and the converter process it starts.                      *)

\* what the converter process can do when started: "raise" (the program is
\* not installed: subprocess.run raises), "fail" (non-zero exit), "ok" (exit
\* zero, <source-basename>.pdf written into the output directory), "silent"
\* (exit zero, nothing written)
ConvOutcomes == {"raise", "fail", "ok", "silent"}

\* the path the converter writes: the output directory joined with the
\* source's base name, its extension replaced by .pdf
ConvertedPath(source_path, output_dir) ==
    PathJoin(output_dir, SplitextRoot(Basename(source_path)) \o PDF)

\* the files after the converter process ended
RunConverter(w, source_path, output_dir, conv) ==
    IF conv = "ok" /\ IsDir(w, output_dir)
    THEN (Locate(ConvertedPath(source_path, output_dir)) :> PdfFile) @@ w.files
    ELSE w.files

\* os.rename(src, dst) of a file
Rename(w, src, dst) ==
    LET s == Locate(src)
        d == Locate(dst)
    IN  IF s \in DOMAIN w.files /\ CanWrite(w, dst)
        THEN [ok |-> TRUE,
              files |-> [c \in ((DOMAIN w.files) \ {s}) \cup {d} |->
                            IF c = d THEN w.files[s] ELSE w.files[c]]]
        ELSE [ok |-> FALSE, exc |-> "<FileNotFoundError>"]

\* the target path export_to_pdf resolves
TargetPath(source_path, target_filename) ==
    IF ~target_filename.some THEN StrReplace(source_path, DOCX, PDF)
    ELSE IF ~EndsWith(Lower(target_filename.val), PDF)
         THEN target_filename.val \o PDF
         ELSE target_filename.val

\* `os.path.dirname(target_path) or '.'`
OutputDir(target_path) ==
    IF Dirname(target_path) /= <<>> THEN Dirname(target_path) ELSE <<".">>

\* export_to_pdf once the source is known to exist
ExportExisting(w, source_path, target_filename, conv) ==
    LET target_path == TargetPath(source_path, target_filename)
        output_dir == OutputDir(target_path)
        converted_path == ConvertedPath(source_path, output_dir)
        w1 == [files |-> RunConverter(w, source_path, output_dir, conv),
               dirs |-> w.dirs]
        made == IF conv = "ok" /\ IsDir(w, output_dir)
                THEN {Locate(converted_path)} ELSE {}
        mv == Rename(w1, converted_path, target_path)
        after(out) == [out EXCEPT !.ran = TRUE, !.wrote = @ \cup made]
    IN  IF conv = "raise"
        THEN after(Ret(w.files, <<"Error ", "during", " PDF conversion: ",
                                  "<FileNotFoundError>">>, "exception"))
        ELSE IF conv = "fail"
        THEN after(Ret(w1.files, <<"Conversion failed: ", "<stderr>">>,
                       "converter_exit"))
        ELSE IF converted_path /= target_path
        THEN IF Exists(w1, target_path)
             THEN after(Ret(w1.files, <<"Error: ", "Target file ">>
                                      \o Quoted(target_path)
                                      \o <<" already exists">>, "exists"))
             ELSE IF ~mv.ok
             THEN after(Ret(w1.files, <<"Error ", "during", " PDF conversion: ",
                                        mv.exc>>, "exception"))
             ELSE after(Stored(Ret(mv.files, <<"Document converted to PDF: ">>
                                             \o Quoted(target_path), "none"),
                               target_path))
        ELSE after(Ret(w1.files, <<"Document converted to PDF: ">>
                                 \o Quoted(target_path), "none"))

\* export_to_pdf with the check of the source left out
export_to_pdf_unchecked(w, source_filename, target_filename, conv) ==
    ExportExisting(w, ensure_docx_extension(source_filename), target_filename,
                   conv)

export_to_pdf(w, source_filename, target_filename, conv) ==
    LET source_path == ensure_docx_extension(source_filename)
    IN  IF ~check_file_exists(w, source_path)
        THEN Ret(w.files, <<"Error: ", "Source document ">>
                          \o Quoted(source_path) \o <<" does not exist">>,
                 "not_found")
        ELSE ExportExisting(w, source_path, target_filename, conv)

-----------------------------------------------------------------------------
(* The state: the files and directories on disk, the last call (its        *)
(* arguments, what it returned, what it stored), the files before that     *)
(* call, and for each document grown from nothing by write_text(append)    *)
(* and add_heading calls alone, the texts of those calls in call order.    *)
(* For write_text calls that run at the same time: each caller's position  *)
(* in write_text with its local variables, and the order in which the      *)
(* callers reached the file.                                               *)

World == [files |-> files, dirs |-> dirs]

NoCall ==
    [op |-> "none", args |-> <<>>, result |-> [msg |-> <<>>, fail |-> "none"],
     wrote |-> {}, ran |-> FALSE]

\* the callers whose write_text calls may run at the same time (one server
\* process each, or one thread each)
Callers == {1, 2}

NoDocument == [kind |-> "none"]

NoResult == [msg |-> <<>>, fail |-> "none"]

\* a caller that has not called yet.  pc: where the caller is in write_text;
\* filename, text, append, doc: write_text's local variables; loaded: the
\* document as Document(filename) or Document() gave it; overlapped: another
\* caller was writing the same file while this one was; result: the returned
\* string
NotCalled ==
    [pc |-> "idle", filename |-> <<>>, text |-> <<>>, append |-> TRUE,
     doc |-> NoDocument, loaded |-> NoDocument, overlapped |-> FALSE,
     result |-> NoResult]

\* the call appends one paragraph to the document at its filename
IsAppendCall(op, args) ==
    \/ op = "write_text" /\ args.append
    \/ op = "add_heading"

NextHist(op, args, out) ==
    LET same == {c \in DOMAIN hist :
                    c \in DOMAIN out.files /\ out.files[c] = files[c]}
        kept == [c \in same |-> hist[c]]
        loc == Locate(ensure_docx_extension(args.filename))
    IN  IF IsAppendCall(op, args) /\ out.result.fail = "none"
                                  /\ loc \in out.wrote
        THEN IF loc \notin DOMAIN files
             THEN (loc :> <<args.text>>) @@ kept
             ELSE IF loc \in DOMAIN hist
             THEN (loc :> Append(hist[loc], args.text)) @@ kept
             ELSE kept
        ELSE kept

Do(op, args, out) ==
    /\ files' = out.files
    /\ dirs' = dirs
    /\ prev' = files
    /\ last' = [op |-> op, args |-> args, result |-> out.result,
                wrote |-> out.wrote, ran |-> out.ran]
    /\ hist' = NextHist(op, args, out)
    /\ UNCHANGED <<calls, trace>>

\* every stored document is within the bounds
Bounded(fs) ==
    \A c \in DOMAIN fs :
        fs[c].kind = "docx" =>
            /\ Len(fs[c].paras) <= MaxParas
            /\ \A i \in 1..Len(fs[c].paras) :
                  \A j \in 1..Len(fs[c].paras[i].runs) :
                      Len(fs[c].paras[i].runs[j]) <= MaxRunLen
            /\ \A t \in 1..Len(fs[c].tables) :
                \A r \in 1..Len(fs[c].tables[t]) :
                 \A k \in 1..Len(fs[c].tables[t][r]) :
                  \A i \in 1..Len(fs[c].tables[t][r][k]) :
                   \A j \in 1..Len(fs[c].tables[t][r][k][i].runs) :
                      Len(fs[c].tables[t][r][k][i].runs[j]) <= MaxRunLen

ReadDocument(Names) ==
    \E f \in Names :
        Do("read_document", [filename |-> f], read_document(World, f))

GetDocumentInfo(Names) ==
    \E f \in Names :
        Do("get_document_info", [filename |-> f], get_document_info(World, f))

ListDocuments(Dirs) ==
    \E d \in Dirs :
        Do("list_documents", [directory |-> d], list_documents(World, d))

CopyDocument(Sources, Targets) ==
    \E s \in Sources, t \in Targets :
        Do("copy_document", [filename |-> s, target |-> t],
           copy_document(World, s, t))

CreateDocument(Names, Props) ==
    \E f \in Names, p \in Props :
        Do("create_document",
           [filename |-> f, title |-> p.title, author |-> p.author],
           create_document(World, f, p.title, p.author))

WriteText(Names, Texts) ==
    \E f \in Names, t \in Texts, append \in BOOLEAN :
        LET out == write_text(World, f, t, append)
        IN  /\ Bounded(out.files)
            /\ Do("write_text", [filename |-> f, text |-> t, append |-> append],
                  out)

AddHeading(Names, Texts, Levels) ==
    \E f \in Names, t \in Texts, level \in Levels :
        LET out == add_heading(World, f, t, level)
        IN  /\ Bounded(out.files)
            /\ Do("add_heading", [filename |-> f, text |-> t, level |-> level],
                  out)

ReplaceText(Names, Finds, News) ==
    \E f \in Names, x \in Finds, y \in News :
        LET out == replace_text(World, f, x, y)
        IN  /\ Bounded(out.files)
            /\ Do("replace_text", [filename |-> f, find |-> x, new |-> y], out)

ExportToPdf(Sources, Targets) ==
    \E s \in Sources, t \in Targets, conv \in ConvOutcomes :
        LET out == export_to_pdf(World, s, t, conv)
            dir == OutputDir(TargetPath(ensure_docx_extension(s), t))
        IN  /\ conv = "ok" => IsDir(World, dir)
            /\ Do("export_to_pdf",
                  [filename |-> s, target |-> t,
                   conv |-> IF out.ran THEN conv ELSE "not started"],
                  out)

-----------------------------------------------------------------------------
(* write_text run by several callers at once, one statement at a time.     *)
(* Nothing in write_text holds a lock: between any two statements of one   *)
(* caller the other caller may run.                                        *)

Event(c, what) == [caller |-> c, event |-> what]

\* the caller's step: its own record changes, the other's stays
Step(c, rec, fs, events) ==
    /\ calls' = [calls EXCEPT ![c] = rec]
    /\ files' = fs
    /\ trace' = trace \o events
    /\ UNCHANGED <<dirs, last, prev, hist>>

\* `except Exception as e: return f"Error writing to document: {str(e)}"`
WriteTextRaised(c, exc) ==
    [calls[c] EXCEPT !.pc = "done",
                     !.result = [msg |-> <<"Error ", "writing",
                                           " to document: ", exc>>,
                                 fail |-> "exception"]]

\* the call arrives: the extension is added and the condition
\* `append and check_file_exists(filename)` is evaluated
WriteTextBegin(c, Names, Ts, Appends) ==
    \E f \in Names, t \in Ts, append \in Appends :
        LET filename == ensure_docx_extension(f)
        IN  /\ calls[c].pc = "idle"
            /\ Step(c, [calls[c] EXCEPT
                           !.pc = IF LoadsExisting(World, filename, append)
                                  THEN "load" ELSE "new",
                           !.filename = filename, !.text = t,
                           !.append = append],
                    files, <<Event(c, "begin")>>)

\* doc = Document(filename) or doc = Document(), then doc.add_paragraph(text)
\* on the caller's own handle
WriteTextOpen(c) ==
    LET call == calls[c]
        ld == IF call.pc = "load" THEN Load(World, call.filename)
              ELSE [ok |-> TRUE, doc |-> NewDocument]
    IN  /\ call.pc \in {"load", "new"}
        /\ IF ~ld.ok
           THEN Step(c, WriteTextRaised(c, ld.exc), files,
                     <<Event(c, "return")>>)
           ELSE Step(c, [call EXCEPT
                            !.pc = "save", !.loaded = ld.doc,
                            !.doc = AddParagraph(ld.doc, call.text, Normal)],
                     files, <<Event(c, call.pc)>>)

\* the callers in the middle of writing the file at the location of path
Writing(path) ==
    {d \in Callers : /\ calls[d].pc = "write"
                     /\ Locate(calls[d].filename) = Locate(path)}

\* doc.save(filename) begins: the library opens the file for writing in
\* place, which empties it
WriteTextSave(c) ==
    LET call == calls[c]
        others == Writing(call.filename) \ {c}
    IN  /\ call.pc = "save"
        /\ IF ~CanWrite(World, call.filename)
           THEN Step(c, WriteTextRaised(c, Save(World, call.filename,
                                               call.doc).exc),
                     files, <<Event(c, "return")>>)
           ELSE /\ calls' = [d \in Callers |->
                    IF d = c
                    THEN [call EXCEPT !.pc = "write",
                                      !.overlapped = others /= {}]
                    ELSE IF d \in others
                    THEN [calls[d] EXCEPT !.overlapped = TRUE]
                    ELSE calls[d]]
                /\ files' = (Locate(call.filename) :> JunkFile) @@ files
                /\ trace' = Append(trace, Event(c, "save"))
                /\ UNCHANGED <<dirs, last, prev, hist>>

\* the first save of a file keeps it: a later save by another caller leaves
\* the file as that first save wrote it
WrittenFile_first(c) ==
    LET before == {d \in Callers \ {c} :
                      /\ calls[d].pc \in {"saved", "done"}
                      /\ calls[d].doc /= NoDocument
                      /\ Locate(calls[d].filename) = Locate(calls[c].filename)}
    IN  IF before /= {} THEN {calls[d].doc : d \in before}
        ELSE {calls[c].doc}

\* what the file holds when the caller has written its package: the
\* caller's document; when another caller wrote the same file meanwhile,
\* whichever bytes landed last, of either document or a mix that is no
\* package
WrittenFile(c) ==
    IF calls[c].overlapped
    THEN {calls[c].doc, JunkFile}
         \cup {calls[d].doc : d \in
                  {e \in Callers \ {c} :
                      /\ calls[e].overlapped
                      /\ Locate(calls[e].filename) = Locate(calls[c].filename)}}
    ELSE {calls[c].doc}

\* doc.save(filename) ends: the package is written and the file closed
WriteTextWritten(c) ==
    /\ calls[c].pc = "write"
    /\ \E stored \in WrittenFile(c) :
          Step(c, [calls[c] EXCEPT !.pc = "saved"],
               (Locate(calls[c].filename) :> stored) @@ files,
               <<Event(c, "saved")>>)

\* the message is formatted and returned
WriteTextReturn(c) ==
    LET call == calls[c]
        action == IF call.append /\ check_file_exists(World, call.filename)
                  THEN "appended to" ELSE "written to"
    IN  /\ call.pc = "saved"
        /\ Step(c, [call EXCEPT
                        !.pc = "done",
                        !.result = [msg |-> <<"Text ", action, " ">>
                                            \o Quoted(call.filename)
                                            \o <<" successfully">>,
                                    fail |-> "none"]],
                files, <<Event(c, "return")>>)

-----------------------------------------------------------------------------
(* Inputs.                                                                 *)

NameA == <<"a">>

NameADocx == NameA \o DOCX

NameB == <<"b">>

\* in the working directory, written with its directory
NameDotA == <<".", "/", "a">>

\* in directory d, which exists
NameDA == <<"d", "/", "a">>

\* in directory e, which does not exist
NameEA == <<"e", "/", "a">>

Para(style, runs) == [style |-> style, runs |-> runs]

DocOf(paras, tables) == [NewDocument EXCEPT !.paras = paras, !.tables = tables]

\* one paragraph, one run
DocPlain == DocOf(<<Para(Normal, << <<"a", "b">> >>)>>, <<>>)

\* "ab" split over two runs
DocSplit == DocOf(<<Para(Normal, << <<"a">>, <<"b">> >>)>>, <<>>)

\* a two-run paragraph, and a table of one cell holding one run
DocRuns ==
    DocOf(<<Para(Normal, << <<"a", "b">>, <<"a">> >>)>>,
          << << << <<Para(Normal, << <<"b", "a">> >>)>> >> >> >>)

EmptyFiles == <<>>

NoProps == [title |-> None, author |-> None]

SomeProps == [title |-> Some(<<"t">>), author |-> Some(<<"u">>)]

InitDirs == {<<"d">>}

NameAPdf == NameA \o PDF

NameC == <<"c">>

StartWith(F) ==
    /\ files \in F
    /\ dirs = InitDirs
    /\ last = NoCall
    /\ prev = files
    /\ hist = <<>>
    /\ calls = [c \in Callers |-> NotCalled]
    /\ trace = <<>>

\* Every tool, on few inputs.  Directory d exists, e does not.
InitFiles ==
    { EmptyFiles,
      (NameADocx :> DocPlain),
      (NameADocx :> JunkFile) }

Init == StartWith(InitFiles)

Next ==
    \/ ReadDocument({NameA, NameB})
    \/ GetDocumentInfo({NameA})
    \/ ListDocuments({<<".">>, <<"e">>, NameADocx})
    \/ CopyDocument({NameA}, {NameB, NameEA})
    \/ CreateDocument({NameA, NameEA}, {SomeProps})
    \/ WriteText({NameA}, {<<"a">>})
    \/ AddHeading({NameB}, {<<"a">>}, {0, 1})
    \/ ReplaceText({NameA}, {<<"a">>, <<"c">>}, {<<"a">>})
    \/ ExportToPdf({NameA}, {None})

Spec == Init /\ [][Next]_vars

\* Growing one document: create_document, write_text, add_heading and
\* read_document on a.docx, from nothing or from a stored file.
Texts == {<<>>, <<"a">>, <<" ">>, <<"b", "\r">>}

Levels == {0, 1, 6, 7}

InitEdit == StartWith({EmptyFiles, (NameADocx :> DocPlain),
                       (NameADocx :> JunkFile)})

NextEdit ==
    \/ CreateDocument({NameA}, {NoProps})
    \/ WriteText({NameA, NameEA}, Texts)
    \/ AddHeading({NameA, NameEA}, {<<"b">>}, Levels)
    \/ ReadDocument({NameA, NameADocx})

SpecEdit == InitEdit /\ [][NextEdit]_vars

\* Find and replace on documents with several runs and a table.
Finds == {<<>>, <<"a">>, <<"a", "b">>, <<"b", "a">>}

News == {<<>>, <<"b">>, <<"a", "a">>}

InitReplace == StartWith({(NameADocx :> DocPlain), (NameADocx :> DocSplit),
                          (NameADocx :> DocRuns)})

NextReplace ==
    \/ ReplaceText({NameA, NameB}, Finds, News)
    \/ ReadDocument({NameA})

SpecReplace == InitReplace /\ [][NextReplace]_vars

\* Copying and exporting stored documents.
InitStored ==
    StartWith({ EmptyFiles,
                (NameADocx :> DocPlain),
                (NameADocx :> DocRuns) @@ (Locate(NameDA \o DOCX) :> DocSplit),
                (NameADocx :> JunkFile) @@ (NameAPdf :> PdfFile),
                (NameADocx :> DocPlain) @@ (NameC \o PDF :> PdfFile) })

NextStored ==
    \/ CopyDocument({NameA, NameB}, {NameA, NameB, NameEA})
    \/ ExportToPdf({NameA, NameDotA, NameDA},
                   {None, Some(NameC), Some(<<"c", ".", "P", "D", "F">>),
                    Some(<<"e", "/", "c">>)})
    \/ ListDocuments({<<".">>, <<"d">>, <<"e">>, NameADocx})
    \/ ReadDocument({NameB})

SpecStored == InitStored /\ [][NextStored]_vars

\* Two callers, one write_text call each, on a.docx, named with and without
\* its extension.
RaceTexts == {<<"a">>, <<"b">>}

InitRace == StartWith({EmptyFiles, (NameADocx :> NewDocument),
                       (NameADocx :> DocPlain), (NameADocx :> JunkFile)})

NextRace ==
    \/ \E c \in Callers :
          WriteTextBegin(c, {NameA, NameADocx}, RaceTexts, BOOLEAN)
    \/ \E c \in Callers : WriteTextOpen(c)
    \/ \E c \in Callers : WriteTextSave(c)
    \/ \E c \in Callers : WriteTextWritten(c)
    \/ \E c \in Callers : WriteTextReturn(c)

SpecRace == InitRace /\ [][NextRace]_vars

-----------------------------------------------------------------------------
(* Properties.                                                             *)

PrevWorld == [files |-> prev, dirs |-> dirs]

\* the location the last call's filename argument names, extension added
LastLoc == Locate(ensure_docx_extension(last.args.filename))

\* a document was stored at location c before the last call
HeldDocument(c) == c \in DOMAIN prev /\ prev[c].kind = "docx"

\* every paragraph of a document: those of the body, then those of the cells
AllParas(doc) ==
    doc.paras \o
    Concat([t \in 1..Len(doc.tables) |->
        Concat([r \in 1..Len(doc.tables[t]) |->
            Concat(doc.tables[t][r])])])

\* every run of a document
AllRuns(doc) ==
    LET ps == AllParas(doc) IN Concat([i \in 1..Len(ps) |-> ps[i].runs])

\* some single run holds find as a substring of its own text
SomeRunHolds(doc, find) ==
    \E i \in 1..Len(AllRuns(doc)) : Contains(AllRuns(doc)[i], find)

\* the number a "Replaced N occurrence(s)" message reports
ReportedCount(msg) == CHOOSE n \in 0..100 : ToString(n) = msg[2]

IsReplaced(msg) == msg[1] = "Replaced "

IsNoOccurrences(msg, find) ==
    msg = <<"No occurrences of ">> \o Quoted(find) \o <<" found">>

Substituted(doc, find) ==
    SumSeq([i \in 1..Len(AllRuns(doc)) |->
        IF Contains(AllRuns(doc)[i], find)
        THEN StrCount(AllRuns(doc)[i], find) ELSE 0])

\* C9: the count in the "Replaced N occurrence(s)" message is the number of
\* occurrences of find that were substituted.
C9_CountIsSubstitutions ==
    (last.op = "replace_text" /\ HeldDocument(LastLoc)
        /\ IsReplaced(last.result.msg)) =>
        ReportedCount(last.result.msg)
            = Substituted(prev[LastLoc], last.args.find)

\* what read_document returns now for the last call's filename
ReadBack == read_document(World, last.args.filename).result.msg

WroteAnew ==
    /\ last.op = "write_text"
    /\ ~last.args.append
    /\ last.result.fail = "none"

NonBlank(text) == \E i \in 1..Len(text) : ~IsSpace(text[i])

\* a text as a later read shows it: a carriage return reads as a newline
AsRead(text) == [i \in 1..Len(text) |-> IF text[i] = "\r" THEN "\n" ELSE text[i]]

\* C2 as stated: write_text(filename, text, append=False) followed by
\* read_document(filename) returns exactly text, whatever the path held.
C2_WriteThenRead == WroteAnew => ReadBack = last.args.text

\* C2 amended: after write_text(filename, text, append=False), read_document
\* returns text with each carriage return read as a newline when text holds a
\* character that is not white space, and the empty string when it holds none.
C2_WriteThenReadAmended ==
    WroteAnew =>
        ReadBack = IF NonBlank(last.args.text) THEN AsRead(last.args.text)
                   ELSE <<>>

\* a text written over a stored document of one paragraph is all that is read
C2_Witness ==
    /\ WroteAnew
    /\ HeldDocument(LastLoc)
    /\ prev[LastLoc].paras /= <<>>
    /\ last.args.text = <<"a">>
    /\ ReadBack = <<"a">>

\* C3 as stated: for a document grown from nothing by write_text(append=True)
\* and add_heading calls, read_document returns the texts of those calls in
\* call order, each on its own line.
C3_AppendOrder ==
    \A c \in DOMAIN hist :
        read_document(World, c).result.msg = Join(hist[c], <<"\n">>)

\* C3 amended: for such a document, read_document returns, in call order and
\* each on its own line, the texts of those calls that hold a character that
\* is not white space (a carriage return read as a newline).
C3_AppendOrderAmended ==
    \A c \in DOMAIN hist :
        read_document(World, c).result.msg =
            Join(SelectSeq([i \in 1..Len(hist[c]) |-> AsRead(hist[c][i])],
                           NonBlank),
                 <<"\n">>)

\* a heading and then a paragraph, read back in that order
C3_Witness ==
    /\ NameADocx \in DOMAIN hist
    /\ hist[NameADocx] = << <<"b">>, <<"a">> >>
    /\ last.op = "write_text"
    /\ ReadBack = <<"b", "\n", "a">>

\* C6: for a level below 1 or above 6, add_heading returns the invalid-level
\* error and changes nothing on disk.
C6_InvalidLevelNoChange ==
    (last.op = "add_heading" /\ (last.args.level < 1 \/ last.args.level > 6)) =>
        /\ last.result.msg
             = <<"Error: ", "Heading level must be between 1 and 6">>
        /\ files = prev
        /\ last.wrote = {}

\* level 0 refused on a path holding nothing, which stays empty
C6_Witness ==
    /\ last.op = "add_heading"
    /\ last.args.level = 0
    /\ last.result.fail = "invalid_level"
    /\ LastLoc \notin DOMAIN files

\* the words that follow "Error " in the messages of the catch-all handlers
IngWords ==
    {"reading", "getting", "listing", "copying", "creating", "writing",
     "adding", "replacing", "during"}

\* the message begins with "Error: " or with "Error <verb>ing ...: "
BeginsWithError(msg) ==
    /\ Len(msg) >= 1
    /\ \/ msg[1] = "Error: "
       \/ msg[1] = "Error " /\ Len(msg) >= 3 /\ msg[2] \in IngWords

\* C4: every failure of every operation (missing file or directory, existing
\* target, invalid heading level, non-zero exit of the converter, any library
\* or runtime exception) is returned as a string beginning with "Error: " or
\* "Error <verb>ing ...: ", and none is raised.
C4_FailuresBeginWithError ==
    last.result.fail /= "none" =>
        /\ last.result.fail /= "raised"
        /\ BeginsWithError(last.result.msg)

\* C4 amended: every failure is returned as a string and none is raised; the
\* string begins with "Error: " or "Error <verb>ing ...: ", except for a
\* non-zero exit of the converter, which export_to_pdf returns as
\* "Conversion failed: <diagnostic>".
C4_FailuresAmended ==
    last.result.fail /= "none" =>
        /\ last.result.fail /= "raised"
        /\ IF last.result.fail = "converter_exit"
           THEN last.result.msg[1] = "Conversion failed: "
           ELSE BeginsWithError(last.result.msg)

\* list_documents given a file: the library's exception comes back as text
C4_Witness ==
    /\ last.op = "list_documents"
    /\ last.result.fail = "exception"
    /\ last.result.msg[2] = "listing"

\* the filenames the tools are compared on: none ends in .docx
BareNames == {NameA, NameEA, <<"a", ".", "d", "o", "c">>}

\* C5: for every tool taking a document filename and every filename not
\* ending in .docx, the call with that filename returns the same result and
\* leaves the same files as the call with the filename plus .docx; and
\* normalising a normalised filename changes nothing.
C5_DefaultExtension ==
    \A f \in BareNames :
        LET g == f \o DOCX
        IN  /\ ~EndsWith(f, DOCX)
            /\ ensure_docx_extension(ensure_docx_extension(f))
                 = ensure_docx_extension(f)
            /\ ensure_docx_extension(g) = g
            /\ read_document(World, f) = read_document(World, g)
            /\ get_document_info(World, f) = get_document_info(World, g)
            /\ \A t \in {NameB, NameADocx} :
                  /\ copy_document(World, f, t) = copy_document(World, g, t)
                  /\ copy_document(World, t, f) = copy_document(World, t, g)
            /\ create_document(World, f, SomeProps.title, SomeProps.author)
                 = create_document(World, g, SomeProps.title, SomeProps.author)
            /\ \A append \in BOOLEAN :
                  write_text(World, f, <<"a">>, append)
                    = write_text(World, g, <<"a">>, append)
            /\ \A level \in {1, 7} :
                  add_heading(World, f, <<"a">>, level)
                    = add_heading(World, g, <<"a">>, level)
            /\ replace_text(World, f, <<"a">>, <<"b">>)
                 = replace_text(World, g, <<"a">>, <<"b">>)
            /\ \A conv \in {"ok", "fail"} :
                  export_to_pdf(World, f, None, conv)
                    = export_to_pdf(World, g, None, conv)

\* a call naming "a" has written a.docx
C5_Witness ==
    /\ last.op = "write_text"
    /\ last.args.filename = NameA
    /\ last.result.fail = "none"
    /\ last.wrote = {NameADocx}
    /\ files[NameADocx].kind = "docx"

\* a file or directory was at the path before the last call
WasThere(path) ==
    path /= <<>> /\ (Locate(path) = <<>> \/ Locate(path) \in DOMAIN prev
                     \/ Locate(path) \in dirs)

CopySource == last.args.filename \o
              (IF EndsWith(last.args.filename, DOCX) THEN <<>> ELSE DOCX)

CopyTarget == last.args.target \o
              (IF EndsWith(last.args.target, DOCX) THEN <<>> ELSE DOCX)

\* C7: copy_document returns an error and leaves the files unchanged whenever
\* the source is absent or the target path already exists; it writes the
\* target, and nothing else, only when the source exists and the target does
\* not.
C7_CopyGuards ==
    last.op = "copy_document" =>
        /\ (~WasThere(CopySource) \/ WasThere(CopyTarget)) =>
              /\ BeginsWithError(last.result.msg)
              /\ files = prev
              /\ last.wrote = {}
        /\ (files /= prev \/ last.wrote /= {}) =>
              /\ WasThere(CopySource)
              /\ ~WasThere(CopyTarget)
              /\ last.wrote = {Locate(CopyTarget)}
              /\ files = (Locate(CopyTarget) :> prev[Locate(CopySource)]) @@ prev

\* a copy onto a stored document is refused
C7_Witness ==
    /\ last.op = "copy_document"
    /\ WasThere(CopySource)
    /\ Locate(CopyTarget) \in DOMAIN prev
    /\ last.result.fail = "exists"
    /\ files = prev

ExportSource == last.args.filename \o
                (IF EndsWith(last.args.filename, DOCX) THEN <<>> ELSE DOCX)

\* the target path as the tool's description gives it: the source with its
\* extension swapped when no target is given, else the target with .pdf
\* appended when it lacks it
ResolvedTarget ==
    IF ~last.args.target.some
    THEN SubSeq(ExportSource, 1, Len(ExportSource) - Len(DOCX)) \o PDF
    ELSE IF EndsWith(Lower(last.args.target.val), PDF)
         THEN last.args.target.val
         ELSE last.args.target.val \o PDF

\* C8: when the source exists, the converter exits with code zero having
\* written <source-basename>.pdf into the output directory, and no file was
\* at the resolved target path before, export_to_pdf returns the success
\* message naming the resolved target path and a PDF is at that path.
C8_ExportSucceeds ==
    (/\ last.op = "export_to_pdf"
     /\ WasThere(ExportSource)
     /\ last.args.conv = "ok"
     /\ ~WasThere(ResolvedTarget)) =>
        /\ last.result.msg
             = <<"Document converted to PDF: ">> \o Quoted(ResolvedTarget)
        /\ Locate(ResolvedTarget) \in DOMAIN files
        /\ files[Locate(ResolvedTarget)] = PdfFile

\* C10: export_to_pdf on a source path that does not exist returns the
\* not-found error, does not start the converter, and creates or renames no
\* file.
C10_ExportMissingSource ==
    (last.op = "export_to_pdf" /\ ~WasThere(ExportSource)) =>
        /\ last.result.msg = <<"Error: ", "Source document ">>
                             \o Quoted(ExportSource) \o <<" does not exist">>
        /\ ~last.ran
        /\ last.wrote = {}
        /\ files = prev

\* an export of a document that is not there, towards a free target
C10_Witness ==
    /\ last.op = "export_to_pdf"
    /\ ~WasThere(ExportSource)
    /\ ~WasThere(ResolvedTarget)
    /\ last.result.fail = "not_found"

-----------------------------------------------------------------------------
(* write_text calls at the same time.                                      *)

\* where in the trace the caller's event is, 0 when it has not happened
Pos(c, what) ==
    IF \E i \in 1..Len(trace) : trace[i] = Event(c, what)
    THEN CHOOSE i \in 1..Len(trace) : trace[i] = Event(c, what)
    ELSE 0

Before(c, what, d, that) ==
    Pos(c, what) > 0 /\ Pos(d, that) > 0 /\ Pos(c, what) < Pos(d, that)

\* the call has returned its success message
Succeeded(c) ==
    /\ calls[c].pc = "done"
    /\ calls[c].result.msg = <<"Text ", "appended to", " ">>
                             \o Quoted(calls[c].filename)
                             \o <<" successfully">>

\* a write_text(append=True) call that loaded the stored document
AppendedToStored(c) ==
    calls[c].append /\ Pos(c, "load") > 0 /\ Succeeded(c)

SamePath(x, y) == Locate(calls[x].filename) = Locate(calls[y].filename)

\* both loaded the document before either began to save it
BothLoadBeforeEitherSaves(x, y) ==
    /\ Before(x, "load", x, "save") /\ Before(x, "load", y, "save")
    /\ Before(y, "load", x, "save") /\ Before(y, "load", y, "save")

\* y saved after x had saved
SavedLast(y, x) == Before(x, "saved", y, "save")

\* x had returned when y was called
RanAfter(y, x) == Before(x, "return", y, "begin")

\* the paragraph write_text adds for text
Written(text) ==
    [style |-> [name |-> "Normal", level |-> 0],
     runs |-> IF text = <<>> THEN <<>>
              ELSE << [i \in 1..Len(text) |->
                          IF text[i] = "\r" THEN "\n" ELSE text[i]] >>]

\* the body paragraphs of the file at the caller's path
BodyAt(c) == files[Locate(calls[c].filename)].paras

HoldsDocument(c) ==
    /\ Locate(calls[c].filename) \in DOMAIN files
    /\ files[Locate(calls[c].filename)].kind = "docx"

\* C11: two write_text(append=True) calls on the same stored document, both
\* returning success.  When both load the document before either saves,
\* the file afterwards is the loaded document with the one paragraph of
\* the call that saved last, and the other call's paragraph is not in it;
\* when one call runs after the other has returned, the file is the
\* document the first call loaded with the first call's paragraph and then
\* the second call's.
C11_UncoordinatedAppends ==
    \A x \in Callers : \A y \in Callers \ {x} :
        (AppendedToStored(x) /\ AppendedToStored(y) /\ SamePath(x, y)) =>
            /\ (BothLoadBeforeEitherSaves(x, y) /\ SavedLast(y, x)) =>
                  /\ HoldsDocument(y)
                  /\ calls[x].loaded = calls[y].loaded
                  /\ BodyAt(y) = Append(calls[y].loaded.paras,
                                        Written(calls[y].text))
            /\ RanAfter(y, x) =>
                  /\ HoldsDocument(y)
                  /\ BodyAt(y) = calls[x].loaded.paras
                                 \o <<Written(calls[x].text),
                                      Written(calls[y].text)>>

\* both calls returned success, both had loaded before either saved, the
\* texts differ, and the file holds only the text of the later save
C11_Witness ==
    \E x \in Callers : \E y \in Callers \ {x} :
        /\ AppendedToStored(x) /\ AppendedToStored(y) /\ SamePath(x, y)
        /\ BothLoadBeforeEitherSaves(x, y) /\ SavedLast(y, x)
        /\ calls[x].text /= calls[y].text
        /\ calls[x].loaded.paras /= <<>>
        /\ HoldsDocument(y)
        /\ Len(BodyAt(y)) = Len(calls[x].loaded.paras) + 1
        /\ \A i \in 1..Len(BodyAt(y)) : BodyAt(y)[i] /= Written(calls[x].text)

\* both calls returned success, one after the other, and the file holds
\* both paragraphs
RanInTurn ==
    \E x \in Callers : \E y \in Callers \ {x} :
        /\ AppendedToStored(x) /\ AppendedToStored(y) /\ SamePath(x, y)
        /\ RanAfter(y, x)
        /\ calls[x].text /= calls[y].text
        /\ HoldsDocument(y)
        /\ Len(BodyAt(y)) = Len(calls[x].loaded.paras) + 2

\* every call that has returned alone left what write_text as one step
\* leaves: the same files and the same returned string
AloneAsOneStep ==
    \A c \in Callers :
        (calls[c].pc = "done" /\ \A d \in Callers \ {c} : calls[d].pc = "idle")
            => LET out == write_text([files |-> prev, dirs |-> dirs],
                                     calls[c].filename, calls[c].text,
                                     calls[c].append)
               IN  files = out.files /\ calls[c].result = out.result

\* both saves were under way at once and both calls returned success
SavesOverlapped ==
    \E x \in Callers : \E y \in Callers \ {x} :
        /\ Succeeded(x) /\ Succeeded(y) /\ SamePath(x, y)
        /\ calls[x].overlapped /\ calls[y].overlapped

====
